---- MODULE Spec2Model ----
(***************************************************************************)
(* Model of scripts/generate_data.py: the one-shot converter that reads    *)
(* the BMP database and the NSQD through ODBC, transforms the two query    *)
(* results and writes each as a CSV inside a zip archive.                  *)
(*                                                                         *)
(* Text is a tuple of one-character strings, so that lower(), strip() and  *)
(* replace() are computed character by character.  A table (DataFrame) is  *)
(* a record of its column labels and its rows; a row is a tuple of cells   *)
(* aligned with the labels.                                                *)
(***************************************************************************)
EXTENDS Naturals, Sequences, FiniteSets

VARIABLES argv, pc, keep_csv, cnn, raw, res, prev, bmpdb, nsqd, fs0, fs, ret, log

vars == <<argv, pc, keep_csv, cnn, raw, res, prev, bmpdb, nsqd, fs0, fs, ret, log>>

-----------------------------------------------------------------------------
(* Bounds of the model *)

\* most command-line arguments after the script name
MaxArgs == 2
\* most rows of a query result in the whole-script specification
MaxRunRows == 1
\* most rows of a query result in the table-transform specification
MaxRows == 2
\* most rows of a query result that vary in the coded columns only
MaxCodeRows == 1
\* most dump_to_zip calls in the serialisation specification
MaxDumps == 3
\* most rows of a table handed to dump_to_zip in the serialisation specification
MaxDumpRows == 1

-----------------------------------------------------------------------------
(* Text *)

\* a missing cell (None / NaN)
NaN == <<"NaN">>

UPPER == <<"A", "B", "C", "D", "E", "F", "G", "H", "I", "J", "K", "L", "M", "N", "O", "P", "Q", "R", "S", "T", "U", "V", "W", "X", "Y", "Z">>
LOWER == <<"a", "b", "c", "d", "e", "f", "g", "h", "i", "j", "k", "l", "m", "n", "o", "p", "q", "r", "s", "t", "u", "v", "w", "x", "y", "z">>

\* str.lower() of one character
LowerChar(c) ==
    IF \E i \in DOMAIN UPPER : UPPER[i] = c
    THEN LOWER[CHOOSE i \in DOMAIN UPPER : UPPER[i] = c]
    ELSE c

\* str.lower()
Lower(s) == [i \in DOMAIN s |-> LowerChar(s[i])]

\* str.replace(a, b) for single characters a and b
Replace(s, a, b) == [i \in DOMAIN s |-> IF s[i] = a THEN b ELSE s[i]]

RECURSIVE LStrip(_)
LStrip(s) == IF s # <<>> /\ Head(s) = " " THEN LStrip(Tail(s)) ELSE s

RECURSIVE RStrip(_)
RStrip(s) ==
    IF s # <<>> /\ s[Len(s)] = " " THEN RStrip(SubSeq(s, 1, Len(s) - 1)) ELSE s

\* str.strip()
Strip(s) == RStrip(LStrip(s))

\* Series.str.lower(): a missing cell stays missing
StrLower(v) == IF v = NaN THEN NaN ELSE Lower(v)

\* Series.str.strip(): a missing cell stays missing
StrStrip(v) == IF v = NaN THEN NaN ELSE Strip(v)

\* Series + str and Series + Series: missing if either side is missing
StrAdd(a, b) == IF a = NaN \/ b = NaN THEN NaN ELSE a \o b

\* Series == str: a missing cell compares unequal
StrEq(v, s) == v # NaN /\ v = s

\* Series != str: a missing cell compares unequal, so the result is True
StrNe(v, s) == ~StrEq(v, s)

Range(s) == {s[i] : i \in DOMAIN s}

-----------------------------------------------------------------------------
(* Tables *)

\* positions of the columns labelled c
ColPos(df, c) == {i \in DOMAIN df.columns : df.columns[i] = c}

\* df[c] as a tuple of cells, one per row
Column(df, c) ==
    LET i == CHOOSE j \in ColPos(df, c) : TRUE
    IN  [r \in DOMAIN df.rows |-> df.rows[r][i]]

\* the subsequence of s at the positions from i on where mask is true, in order
RECURSIVE SelectPos(_, _, _)
SelectPos(s, mask, i) ==
    IF i > Len(s) THEN <<>>
    ELSE (IF mask[i] THEN <<s[i]>> ELSE <<>>) \o SelectPos(s, mask, i + 1)

\* DataFrame.assign(c=vals): overwrite the column c, or append it as the last
AssignColumn(df, c, vals) ==
    IF ColPos(df, c) # {}
    THEN [columns |-> df.columns,
          rows |-> [r \in DOMAIN df.rows |->
                      [i \in DOMAIN df.columns |->
                          IF df.columns[i] = c THEN vals[r] ELSE df.rows[r][i]]]]
    ELSE [columns |-> Append(df.columns, c),
          rows |-> [r \in DOMAIN df.rows |-> Append(df.rows[r], vals[r])]]

\* dict lookup in a literal given as a tuple of <<key, value>> pairs
HasKey(d, k) == \E i \in DOMAIN d : d[i][1] = k
DictGet(d, k) == d[CHOOSE i \in DOMAIN d : d[i][1] = k][2]

\* DataFrame.rename(columns=d) with a dict d: labels that are no key stay
RenameMap(df, d) ==
    LET f(c) == IF HasKey(d, c) THEN DictGet(d, c) ELSE c
    IN  [columns |-> [i \in DOMAIN df.columns |-> f(df.columns[i])],
         rows |-> df.rows]

\* Series.map(d) with a dict d: a value that is no key becomes missing
MapDict(vals, d) ==
    [r \in DOMAIN vals |-> IF HasKey(d, vals[r]) THEN DictGet(d, vals[r]) ELSE NaN]

\* DataFrame.drop(columns=[c])
DropColumn(df, c) ==
    LET keep == [i \in DOMAIN df.columns |-> df.columns[i] # c]
    IN  [columns |-> SelectPos(df.columns, keep, 1),
         rows |-> [r \in DOMAIN df.rows |-> SelectPos(df.rows[r], keep, 1)]]

\* df.loc[mask, :] for a boolean mask with one entry per row
SelectRows(df, mask) ==
    [columns |-> df.columns, rows |-> SelectPos(df.rows, mask, 1)]

\* Series.unique(): the distinct values in order of first appearance
RECURSIVE Unique(_)
Unique(s) ==
    IF s = <<>> THEN <<>>
    ELSE LET init == Unique(SubSeq(s, 1, Len(s) - 1))
             last == s[Len(s)]
         IN  IF last \in Range(init) THEN init ELSE Append(init, last)

-----------------------------------------------------------------------------
(* The literals of the script *)

OUTDIR == <<".", ".", "/", "d", "a", "t", "a">>

\* the labels of the columns NSQDQUERY selects, as the driver reports them
NSQDQUERY ==
    << <<"S", "t", "a", "t", "i", "o", "n", "_", "C", "o", "d", "e">>, <<"S", "t", "a", "t", "i", "o", "n", "_", "N", "a", "m", "e">>, <<"E", "P", "A", "_", "R", "a", "i", "n", "_", "Z", "o", "n", "e">>, <<"S", "t", "a", "t", "e">>,
       <<"P", "r", "i", "n", "c", "i", "p", "a", "l", " ", "L", "a", "n", "d", "u", "s", "e", "s">>, <<"S", "t", "a", "r", "t", "_", "D", "a", "t", "e">>, <<"E", "n", "d", "_", "D", "a", "t", "e">>,
       <<"D", "a", "y", "s", " ", "s", "i", "n", "c", "e", " ", "l", "a", "s", "t", " ", "r", "a", "i", "n">>, <<"P", "r", "e", "c", "i", "p", "i", "t", "a", "t", "i", "o", "n", "_", "D", "e", "p", "t", "h", "_", "(", "i", "n", ")">>,
       <<"s", "a", "m", "p", "l", "e", "_", "e", "v", "e", "n", "t", "_", "t", "y", "p", "e">>, <<"T", "y", "p", "e", "_", "S", "a", "m", "p", "l", "e", "r">>, <<"E", "M", "C", "_", "C", "a", "l", "c", "u", "l", "a", "t", "i", "o", "n">>,
       <<"f", "r", "a", "c", "t", "i", "o", "n">>, <<"p", "a", "r", "a", "m", "e", "t", "e", "r">>, <<"q", "u", "a", "l">>, <<"r", "e", "s">>, <<"u", "n", "i", "t", "s">> >>

_LU_MAP ==
    << << <<"I", "D">>, <<"i", "n", "d", "u", "s", "t", "r", "i", "a", "l">> >>,
       << <<"R", "E">>, <<"r", "e", "s", "i", "d", "e", "n", "t", "i", "a", "l">> >>,
       << <<"C", "O">>, <<"c", "o", "m", "m", "e", "r", "c", "i", "a", "l">> >>,
       << <<"O", "P">>, <<"o", "p", "e", "n", " ", "s", "p", "a", "c", "e">> >>,
       << <<"C", "O", "_", "M", "I", "X">>, <<"c", "o", "m", "m", "e", "r", "c", "i", "a", "l">> >>,
       << <<"I", "D", "_", "M", "I", "X">>, <<"i", "n", "d", "u", "s", "t", "r", "i", "a", "l">> >>,
       << <<"F", "W", "_", "M", "I", "X">>, <<"f", "r", "e", "e", "w", "a", "y">> >>,
       << <<"R", "E", "_", "M", "I", "X">>, <<"r", "e", "s", "i", "d", "e", "n", "t", "i", "a", "l">> >>,
       << <<"O", "P", "_", "M", "I", "X">>, <<"o", "p", "e", "n", " ", "s", "p", "a", "c", "e">> >>,
       << <<"I", "S">>, <<"i", "n", "s", "t", "i", "t", "u", "t", "i", "o", "n", "a", "l">> >>,
       << <<"U", "N", "K">>, <<"u", "n", "k", "n", "o", "w", "n">> >>,
       << <<"F", "W">>, <<"f", "r", "e", "e", "w", "a", "y">> >>,
       << <<"I", "S", "_", "M", "I", "X">>, <<"i", "n", "s", "t", "i", "t", "u", "t", "i", "o", "n", "a", "l">> >>,
       << <<"U", "N", "K", "_", "M", "I", "X">>, <<"u", "n", "k", "n", "o", "w", "n">> >> >>

_EQUIP_MAP ==
    << << <<"M", "A">>, <<"m", "a", "n", "u", "a", "l">> >>,
       << <<"A", "U">>, <<"a", "u", "t", "o", "m", "a", "t", "i", "c">> >> >>

\* the labels of the columns BMPQUERY selects
BMPQUERY ==
    << <<"b", "m", "p", "c", "a", "t">>, <<"b", "m", "p", "t", "y", "p", "e">>, <<"c", "a", "t", "e", "g", "o", "r", "y">>, <<"s", "i", "t", "e", "_", "i", "d">>, <<"s", "i", "t", "e">>, <<"p", "d", "f", "_", "i", "d">>,
       <<"b", "m", "p", "_", "i", "d">>, <<"b", "m", "p">>, <<"m", "s", "_", "i", "d">>, <<"m", "s">>, <<"s", "t", "o", "r", "m">>, <<"s", "a", "m", "p", "l", "e", "d", "a", "t", "e">>, <<"s", "a", "m", "p", "l", "e", "t", "i", "m", "e">>,
       <<"p", "a", "r", "a", "m", "g", "r", "o", "u", "p">>, <<"p", "a", "r", "a", "m", "e", "t", "e", "r">>, <<"r", "a", "w", "_", "p", "a", "r", "a", "m", "e", "t", "e", "r">>, <<"f", "r", "a", "c", "t", "i", "o", "n">>, <<"m", "e", "d", "i", "a">>,
       <<"w", "q", "_", "v", "a", "l", "u", "e">>, <<"w", "q", "_", "u", "n", "i", "t", "s">>, <<"w", "q", "_", "q", "u", "a", "l">>, <<"s", "t", "a", "t", "i", "o", "n">>, <<"S", "G", "T", "C", "O", "D", "E">>, <<"w", "a", "t", "e", "r", "t", "y", "p", "e">>,
       <<"S", "T", "C", "O", "D", "E">>, <<"s", "a", "m", "p", "l", "e", "t", "y", "p", "e">>, <<"i", "n", "i", "t", "i", "a", "l", "s", "c", "r", "e", "e", "n">>, <<"w", "q", "s", "c", "r", "e", "e", "n">>, <<"c", "a", "t", "s", "c", "r", "e", "e", "n">>,
       <<"b", "a", "l", "a", "n", "c", "e", "d">>, <<"c", "o", "m", "m", "e", "n", "t">>, <<"e", "v", "e", "n", "t", "_", "t", "y", "p", "e">>, <<"e", "p", "a", "z", "o", "n", "e">>, <<"s", "t", "a", "t", "e">>, <<"c", "o", "u", "n", "t", "r", "y">>,
       <<"w", "q", "_", "i", "d">>, <<"D", "L">>, <<"d", "l", "_", "t", "y", "p", "e">>, <<"d", "l", "_", "u", "n", "i", "t", "s">>, <<"w", "s", "_", "i", "d">> >>

-----------------------------------------------------------------------------
(* The transforms *)

\* variant: only the rows that are dissolved themselves get the fraction
setup_parameters_own_fraction(df) ==
    LET fraction == Column(df, <<"p", "a", "r", "a", "m", "e", "t", "e", "r", "_", "f", "r", "a", "c", "t", "i", "o", "n">>)
        family == Column(df, <<"p", "a", "r", "a", "m", "e", "t", "e", "r", "_", "f", "a", "m", "i", "l", "y">>)
    IN  AssignColumn(df, <<"p", "a", "r", "a", "m", "e", "t", "e", "r">>,
            [r \in DOMAIN df.rows |->
                IF StrEq(StrLower(fraction[r]), <<"d", "i", "s", "s", "o", "l", "v", "e", "d">>)
                THEN StrAdd(StrAdd(StrStrip(family[r]), <<",", " ">>), fraction[r])
                ELSE family[r]])

\* setup_parameters(df)
setup_parameters(df) ==
    LET fraction == Column(df, <<"p", "a", "r", "a", "m", "e", "t", "e", "r", "_", "f", "r", "a", "c", "t", "i", "o", "n">>)
        family == Column(df, <<"p", "a", "r", "a", "m", "e", "t", "e", "r", "_", "f", "a", "m", "i", "l", "y">>)
        dissolved == [r \in DOMAIN df.rows |-> StrEq(StrLower(fraction[r]), <<"d", "i", "s", "s", "o", "l", "v", "e", "d">>)]
        selected == SelectPos(family, dissolved, 1)
        has_dissolved ==
            Unique([i \in DOMAIN selected |-> StrStrip(StrLower(selected[i]))])
        isin(r) == StrStrip(StrLower(family[r])) \in Range(has_dissolved)
    IN  AssignColumn(df, <<"p", "a", "r", "a", "m", "e", "t", "e", "r">>,
            [r \in DOMAIN df.rows |->
                IF isin(r)
                THEN StrAdd(StrAdd(StrStrip(family[r]), <<",", " ">>), fraction[r])
                ELSE family[r]])

\* pandas.to_datetime of one cell
to_datetime(v) == IF v = NaN THEN NaN ELSE <<"Timestamp">> \o v

\* convert_dates(df)
convert_dates(df) ==
    LET start == Column(df, <<"s", "t", "a", "r", "t", "_", "d", "a", "t", "e">>)
        end == Column(df, <<"e", "n", "d", "_", "d", "a", "t", "e">>)
        df1 == AssignColumn(df, <<"s", "t", "a", "r", "t", "_", "d", "a", "t", "e">>,
                   [r \in DOMAIN df.rows |-> to_datetime(start[r])])
    IN  AssignColumn(df1, <<"e", "n", "d", "_", "d", "a", "t", "e">>,
            [r \in DOMAIN df.rows |-> to_datetime(end[r])])

\* wqio.utils.getSeason of one cell: the library's function, left uninterpreted
getSeason(t) == <<"getSeason">> \o t

\* .rename(columns=lambda c: c.lower().replace(' ', '_'))
RenameLower(df) ==
    LET f(c) == Replace(Lower(c), " ", "_")
    IN  [columns |-> [i \in DOMAIN df.columns |-> f(df.columns[i])],
         rows |-> df.rows]

\* .rename(columns={...})
RenameColumns(df) ==
    RenameMap(df,
        << << <<"p", "a", "r", "a", "m", "e", "t", "e", "r">>, <<"p", "a", "r", "a", "m", "e", "t", "e", "r", "_", "f", "a", "m", "i", "l", "y">> >>,
           << <<"f", "r", "a", "c", "t", "i", "o", "n">>, <<"p", "a", "r", "a", "m", "e", "t", "e", "r", "_", "f", "r", "a", "c", "t", "i", "o", "n">> >>,
           << <<"s", "t", "a", "t", "i", "o", "n", "_", "n", "a", "m", "e">>, <<"s", "i", "t", "e">> >>,
           << <<"e", "p", "a", "_", "r", "a", "i", "n", "_", "z", "o", "n", "e">>, <<"r", "a", "i", "n", "_", "z", "o", "n", "e">> >>,
           << <<"p", "r", "i", "n", "c", "i", "p", "a", "l", "_", "l", "a", "n", "d", "u", "s", "e", "s">>, <<"l", "a", "n", "d", "u", "s", "e", "_", "o", "r", "i", "g">> >>,
           << <<"p", "r", "e", "c", "i", "p", "i", "t", "a", "t", "i", "o", "n", "_", "d", "e", "p", "t", "h", "_", "(", "i", "n", ")">>, <<"p", "r", "e", "c", "i", "p", "_", "d", "e", "p", "t", "h", "_", "i", "n">> >>,
           << <<"e", "m", "c", "_", "c", "a", "l", "c", "u", "l", "a", "t", "i", "o", "n">>, <<"s", "a", "m", "p", "l", "e", "t", "y", "p", "e">> >>,
           << <<"r", "e", "s">>, <<"v", "a", "l", "u", "e">> >> >>)

\* .assign(season=lambda df: df['start_date'].map(wqio.utils.getSeason))
AssignSeason(df) ==
    LET start == Column(df, <<"s", "t", "a", "r", "t", "_", "d", "a", "t", "e">>)
    IN  AssignColumn(df, <<"s", "e", "a", "s", "o", "n">>, [r \in DOMAIN df.rows |-> getSeason(start[r])])

\* variant: .replace(_LU_MAP), which leaves a code that is no key as it is
AssignLanduse_replace(df) ==
    LET orig == Column(df, <<"l", "a", "n", "d", "u", "s", "e", "_", "o", "r", "i", "g">>)
    IN  AssignColumn(df, <<"l", "a", "n", "d", "u", "s", "e", "_", "p", "r", "i", "m", "a", "r", "y">>,
            [r \in DOMAIN df.rows |->
                IF HasKey(_LU_MAP, orig[r]) THEN DictGet(_LU_MAP, orig[r]) ELSE orig[r]])

\* .assign(landuse_primary=lambda df: df['landuse_orig'].map(_LU_MAP))
AssignLanduse(df) ==
    AssignColumn(df, <<"l", "a", "n", "d", "u", "s", "e", "_", "p", "r", "i", "m", "a", "r", "y">>, MapDict(Column(df, <<"l", "a", "n", "d", "u", "s", "e", "_", "o", "r", "i", "g">>), _LU_MAP))

\* .assign(sample_equipment=lambda df: df['type_sampler'].map(_EQUIP_MAP))
AssignEquipment(df) ==
    AssignColumn(df, <<"s", "a", "m", "p", "l", "e", "_", "e", "q", "u", "i", "p", "m", "e", "n", "t">>, MapDict(Column(df, <<"t", "y", "p", "e", "_", "s", "a", "m", "p", "l", "e", "r">>), _EQUIP_MAP))

\* variant: the renamed EMC_Calculation is left as queried
AssignSampletype_skipped(df) == df

\* .assign(sampletype='composite')
AssignSampletype(df) ==
    AssignColumn(df, <<"s", "a", "m", "p", "l", "e", "t", "y", "p", "e">>, [r \in DOMAIN df.rows |-> <<"c", "o", "m", "p", "o", "s", "i", "t", "e">>])

\* .drop(columns=['station_code'])
DropStationCode(df) == DropColumn(df, <<"s", "t", "a", "t", "i", "o", "n", "_", "c", "o", "d", "e">>)

\* the chain of calls make_nsqd applies to the query result
NsqdTransform(df) ==
    DropStationCode(AssignSampletype(AssignEquipment(AssignLanduse(AssignSeason(
        convert_dates(setup_parameters(RenameColumns(RenameLower(df)))))))))

\* variant: the comparison without .str.strip()
BmpTransform_no_strip(df) ==
    LET parameter == Column(df, <<"p", "a", "r", "a", "m", "e", "t", "e", "r">>)
    IN  SelectRows(df, [r \in DOMAIN df.rows |->
            StrNe(parameter[r], <<"P", "a", "r", "t", "i", "c", "l", "e", " ", "C", "o", "n", "c", "e", "n", "t", "r", "a", "t", "i", "o", "n">>)])

\* .loc[lambda df: df.loc[:, 'parameter'].str.strip() != 'Particle Concentration', :]
BmpTransform(df) ==
    LET parameter == Column(df, <<"p", "a", "r", "a", "m", "e", "t", "e", "r">>)
    IN  SelectRows(df, [r \in DOMAIN df.rows |->
            StrNe(StrStrip(parameter[r]), <<"P", "a", "r", "t", "i", "c", "l", "e", " ", "C", "o", "n", "c", "e", "n", "t", "r", "a", "t", "i", "o", "n">>)])

-----------------------------------------------------------------------------
(* Files *)

\* OUTDIR / f'{name}.csv' and OUTDIR / f'{name}.zip'
CsvPath(name) == [parent |-> OUTDIR, name |-> name \o <<".", "c", "s", "v">>]
ZipPath(name) == [parent |-> OUTDIR, name |-> name \o <<".", "z", "i", "p">>]

\* a file of OUTDIR the script never names
OtherPath == [parent |-> OUTDIR, name |-> <<"R", "E", "A", "D", "M", "E", ".", "m", "d">>]

\* the names main passes to dump_to_zip
DumpNames == {<<"b", "m", "p", "d", "a", "t", "a">>, <<"n", "s", "q", "d">>}

\* the dataset main dumps under a name, and the name of a dataset
DatasetOf(name) == IF name = <<"n", "s", "q", "d">> THEN "nsqd" ELSE "bmp"
NameOf(d) == IF d = "nsqd" THEN <<"n", "s", "q", "d">> ELSE <<"b", "m", "p", "d", "a", "t", "a">>

Paths == {CsvPath(n) : n \in DumpNames} \cup {ZipPath(n) : n \in DumpNames}
            \cup {OtherPath}

\* no file, a plain file with its text, a zip archive with its members
NoFile == [kind |-> "none", text |-> <<>>, members |-> <<>>]
PlainFile(text) == [kind |-> "file", text |-> text, members |-> <<>>]
Archive(members) == [kind |-> "zip", text |-> <<>>, members |-> members]

\* one cell of a CSV line: a missing cell is empty, a cell holding the
\* separator or a quote is quoted
CsvCell(v) ==
    IF v = NaN THEN <<>>
    ELSE IF "," \in Range(v) \/ "\"" \in Range(v) THEN <<"\"">> \o v \o <<"\"">>
    ELSE v

RECURSIVE CsvLine(_)
CsvLine(cells) ==
    IF cells = <<>> THEN <<"\n">>
    ELSE IF Len(cells) = 1 THEN CsvCell(cells[1]) \o <<"\n">>
    ELSE CsvCell(cells[1]) \o <<",">> \o CsvLine(Tail(cells))

RECURSIVE CsvLines(_)
CsvLines(rows) ==
    IF rows = <<>> THEN <<>> ELSE CsvLine(Head(rows)) \o CsvLines(Tail(rows))

\* the text df.to_csv(index=False) writes: the header line, then the rows
ToCsv(df) == CsvLine(df.columns) \o CsvLines(df.rows)

\* df.to_csv(outcsv, index=False, encoding='utf-8')
WriteCsv(f, df, name) ==
    [f EXCEPT ![CsvPath(name)] = PlainFile(ToCsv(df))]

\* variant: z.write(outcsv) without arcname, so the member keeps its path
WriteZip_default_arcname(f, name) ==
    LET outcsv == CsvPath(name)
        member == [arcname |-> outcsv.parent \o <<"/">> \o outcsv.name,
                   text |-> f[outcsv].text]
    IN  [f EXCEPT ![ZipPath(name)] = Archive(<< member >>)]

\* variant: mode='a', so an existing archive keeps its members
WriteZip_append(f, name) ==
    LET outcsv == CsvPath(name)
        opened == f[ZipPath(name)]
        member == [arcname |-> outcsv.name, text |-> f[outcsv].text]
    IN  [f EXCEPT ![ZipPath(name)] = Archive(Append(opened.members, member))]

\* with ZipFile(outzip, mode='w', ...) as z: z.write(outcsv, arcname=outcsv.name)
WriteZip(f, name) ==
    LET outcsv == CsvPath(name)
        opened == Archive(<<>>)
        member == [arcname |-> outcsv.name, text |-> f[outcsv].text]
    IN  [f EXCEPT ![ZipPath(name)] = Archive(Append(opened.members, member))]

\* if not keep_csv: outcsv.unlink()
UnlinkCsv(f, name, keep) ==
    IF ~keep THEN [f EXCEPT ![CsvPath(name)] = NoFile] ELSE f

\* the files after dump_to_zip(df, name, keep_csv)
dump_to_zip(f, df, name, keep) ==
    UnlinkCsv(WriteZip(WriteCsv(f, df, name), name), name, keep)

\* return outzip
dump_to_zip_result(name) == ZipPath(name)

\* what an earlier run can have left in a file
OldText == <<"o", "l", "d">> \o <<"\n">>
OldCsv == PlainFile(OldText)
OldZip(name) == Archive(<< [arcname |-> name \o <<".", "c", "s", "v">>, text |-> OldText] >>)

\* OUTDIR before the script starts: the unrelated file, and for each output
\* either nothing or what an earlier run left
InitialFiles ==
    {[p \in Paths |->
        IF p = OtherPath THEN PlainFile(<<"#", " ", "d", "a", "t", "a">> \o <<"\n">>)
        ELSE IF \E n \in DumpNames : p = ZipPath(n)
        THEN (IF zips THEN OldZip(CHOOSE n \in DumpNames : p = ZipPath(n)) ELSE NoFile)
        ELSE (IF csvs THEN OldCsv ELSE NoFile)] :
     zips \in BOOLEAN, csvs \in BOOLEAN}

-----------------------------------------------------------------------------
(* Inputs *)

SeqsUpTo(S, n) == UNION {[1..k -> S] : k \in 0..n}

\* a row of the BMP query result: the WHERE clause fixes media, SGTCODE,
\* initialscreen and wqscreen; parameter is missing where the LEFT JOIN with
\* tblAnalysisGroups found no match
BmpRow(parameter, wq_value) ==
    [i \in DOMAIN BMPQUERY |->
        IF BMPQUERY[i] = <<"p", "a", "r", "a", "m", "e", "t", "e", "r">> THEN parameter
        ELSE IF BMPQUERY[i] = <<"w", "q", "_", "v", "a", "l", "u", "e">> THEN wq_value
        ELSE IF BMPQUERY[i] = <<"m", "e", "d", "i", "a">> THEN <<"w", "a", "t", "e", "r">>
        ELSE IF BMPQUERY[i] = <<"S", "G", "T", "C", "O", "D", "E">> THEN <<"1">>
        ELSE IF BMPQUERY[i] \in {<<"i", "n", "i", "t", "i", "a", "l", "s", "c", "r", "e", "e", "n">>, <<"w", "q", "s", "c", "r", "e", "e", "n">>} THEN <<"Y", "e", "s">>
        ELSE <<"-">>]

\* a row of the NSQD query result
NsqdRow(parameter, fraction, landuses, sampler, emc) ==
    [i \in DOMAIN NSQDQUERY |->
        IF NSQDQUERY[i] = <<"p", "a", "r", "a", "m", "e", "t", "e", "r">> THEN parameter
        ELSE IF NSQDQUERY[i] = <<"f", "r", "a", "c", "t", "i", "o", "n">> THEN fraction
        ELSE IF NSQDQUERY[i] = <<"P", "r", "i", "n", "c", "i", "p", "a", "l", " ", "L", "a", "n", "d", "u", "s", "e", "s">> THEN landuses
        ELSE IF NSQDQUERY[i] = <<"T", "y", "p", "e", "_", "S", "a", "m", "p", "l", "e", "r">> THEN sampler
        ELSE IF NSQDQUERY[i] = <<"E", "M", "C", "_", "C", "a", "l", "c", "u", "l", "a", "t", "i", "o", "n">> THEN emc
        ELSE IF NSQDQUERY[i] = <<"S", "t", "a", "r", "t", "_", "D", "a", "t", "e">> THEN <<"2", "0", "0", "1", "-", "0", "1", "-", "1", "5">>
        ELSE IF NSQDQUERY[i] = <<"E", "n", "d", "_", "D", "a", "t", "e">> THEN <<"2", "0", "0", "1", "-", "0", "1", "-", "1", "6">>
        ELSE <<"-">>]

Frame(columns, rows) == [columns |-> columns, rows |-> rows]

\* no table yet (None)
NoTable == Frame(<<>>, <<>>)

\* the query results of the whole-script specification
BmpRunRows ==
    {BmpRow(<<"P", "a", "r", "t", "i", "c", "l", "e", " ", "C", "o", "n", "c", "e", "n", "t", "r", "a", "t", "i", "o", "n">>, <<"2">>), BmpRow(<<"C", "o", "p", "p", "e", "r">>, <<"1", ".", "5">>)}
NsqdRunRows ==
    {NsqdRow(<<"C", "o", "p", "p", "e", "r">>, <<"D", "i", "s", "s", "o", "l", "v", "e", "d">>, <<"R", "E">>, <<"A", "U">>, <<"F", "l", "o", "w">>),
     NsqdRow(<<"Z", "i", "n", "c">>, <<"T", "o", "t", "a", "l">>, <<"X", "X">>, <<"M", "A">>, <<"G", "r", "a", "b">>)}
BmpRunResults == {Frame(BMPQUERY, rows) : rows \in SeqsUpTo(BmpRunRows, MaxRunRows)}
NsqdRunResults == {Frame(NSQDQUERY, rows) : rows \in SeqsUpTo(NsqdRunRows, MaxRunRows)}

\* the arguments tried on the command line
Args == {"-k", "--keep", "-x"}
ArgLists == {<<"generate_data.py">> \o a : a \in SeqsUpTo(Args, MaxArgs)}

-----------------------------------------------------------------------------
(* accdb_connection: a generator-based context manager with no try/finally *)

\* entering the with-block: pyodbc.connect(...), then yield cnn
accdb_enter(c) == "open"

\* leaving the with-block after the body finished: the generator resumes
\* after the yield and runs cnn.close()
accdb_exit(c) == "closed"

\* leaving the with-block because the body raised: the exception is thrown
\* into the generator at the yield, which does not catch it, so cnn.close()
\* is not reached
accdb_throw(c) == c

-----------------------------------------------------------------------------
(* The script, statement by statement *)

NoPath == [parent |-> <<>>, name |-> <<>>]

Init ==
    /\ argv \in ArgLists
    /\ pc = "main"
    /\ keep_csv = FALSE
    /\ cnn = [bmp |-> "none", nsqd |-> "none"]
    /\ raw = [bmp |-> NoTable, nsqd |-> NoTable]
    /\ res = NoTable
    /\ prev = NoTable
    /\ bmpdb = NoTable
    /\ nsqd = NoTable
    /\ fs0 \in InitialFiles
    /\ fs = fs0
    /\ ret = NoPath
    /\ log = <<>>

\* variant: -k or --keep accepted in any position
ParseKeep_any_position(args) ==
    \E i \in 2..Len(args) : args[i] \in {"-k", "--keep"}

\* keep_csv = (len(sys.argv) > 1) and sys.argv[1] in ('-k', '--keep')
ParseKeep(args) == Len(args) > 1 /\ args[2] \in {"-k", "--keep"}

Main ==
    /\ pc = "main"
    /\ keep_csv' = ParseKeep(argv)
    /\ pc' = "bmp_connect"
    /\ UNCHANGED <<argv, cnn, raw, res, prev, bmpdb, nsqd, fs0, fs, ret, log>>

\* an exception leaves the function and, uncaught, ends the script
Raise == pc' = "raised"

\* make_bmpdb: with accdb_connection(dbfile=dbfile) as cnn
BmpConnect ==
    /\ pc = "bmp_connect"
    /\ \/ /\ cnn' = [cnn EXCEPT !.bmp = accdb_enter(@)]
          /\ log' = Append(log, <<"connect", "bmp">>)
          /\ pc' = "bmp_query"
       \/ /\ Raise
          /\ UNCHANGED <<cnn, log, fs0>>
    /\ UNCHANGED <<argv, keep_csv, raw, res, prev, bmpdb, nsqd, fs0, fs, ret>>

\* make_bmpdb: pandas.read_sql(BMPQUERY, cnn)
BmpQuery ==
    /\ pc = "bmp_query"
    /\ \/ /\ \E t \in BmpRunResults :
                /\ raw' = [raw EXCEPT !.bmp = t]
                /\ res' = t
          /\ log' = Append(log, <<"query", "bmp">>)
          /\ pc' = "bmp_filter"
          /\ UNCHANGED cnn
       \/ /\ Raise
          /\ cnn' = [cnn EXCEPT !.bmp = accdb_throw(@)]
          /\ UNCHANGED <<raw, res, log, fs0>>
    /\ UNCHANGED <<argv, keep_csv, prev, bmpdb, nsqd, fs0, fs, ret>>

\* make_bmpdb: .loc[...] on the query result
BmpFilter ==
    /\ pc = "bmp_filter"
    /\ \/ /\ res' = BmpTransform(res)
          /\ log' = Append(log, <<"transform", "bmp">>)
          /\ pc' = "bmp_exit"
          /\ UNCHANGED cnn
       \/ /\ Raise
          /\ cnn' = [cnn EXCEPT !.bmp = accdb_throw(@)]
          /\ UNCHANGED <<res, log, fs0>>
    /\ UNCHANGED <<argv, keep_csv, raw, prev, bmpdb, nsqd, fs0, fs, ret>>

\* variant: main dumps bmpdb right after make_bmpdb, before make_nsqd
BmpExit_dump_first ==
    /\ pc = "bmp_exit"
    /\ cnn' = [cnn EXCEPT !.bmp = accdb_exit(@)]
    /\ log' = Append(log, <<"close", "bmp">>)
    /\ bmpdb' = res
    /\ pc' = "bmpdata_csv"
    /\ UNCHANGED <<argv, keep_csv, raw, res, prev, nsqd, fs0, fs, ret>>

\* make_bmpdb: the with-block ends, return res; main: bmpdb = make_bmpdb(bmpfile)
BmpExit ==
    /\ pc = "bmp_exit"
    /\ cnn' = [cnn EXCEPT !.bmp = accdb_exit(@)]
    /\ log' = Append(log, <<"close", "bmp">>)
    /\ bmpdb' = res
    /\ pc' = "nsqd_connect"
    /\ UNCHANGED <<argv, keep_csv, raw, res, prev, nsqd, fs0, fs, ret>>

\* make_nsqd: with accdb_connection(Path(dbfile)) as cnn
NsqdConnect ==
    /\ pc = "nsqd_connect"
    /\ \/ /\ cnn' = [cnn EXCEPT !.nsqd = accdb_enter(@)]
          /\ log' = Append(log, <<"connect", "nsqd">>)
          /\ pc' = "nsqd_query"
       \/ /\ Raise
          /\ UNCHANGED <<cnn, log, fs0>>
    /\ UNCHANGED <<argv, keep_csv, raw, res, prev, bmpdb, nsqd, fs0, fs, ret>>

\* make_nsqd: pandas.read_sql(NSQDQUERY, cnn)
NsqdQuery ==
    /\ pc = "nsqd_query"
    /\ \/ /\ \E t \in NsqdRunResults :
                /\ raw' = [raw EXCEPT !.nsqd = t]
                /\ res' = t
          /\ log' = Append(log, <<"query", "nsqd">>)
          /\ pc' = "nsqd_transform"
          /\ UNCHANGED cnn
       \/ /\ Raise
          /\ cnn' = [cnn EXCEPT !.nsqd = accdb_throw(@)]
          /\ UNCHANGED <<raw, res, log, fs0>>
    /\ UNCHANGED <<argv, keep_csv, prev, bmpdb, nsqd, fs0, fs, ret>>

\* make_nsqd: .rename(...) ... .drop(...) on the query result
NsqdPipeline ==
    /\ pc = "nsqd_transform"
    /\ \/ /\ res' = NsqdTransform(res)
          /\ log' = Append(log, <<"transform", "nsqd">>)
          /\ pc' = "nsqd_exit"
          /\ UNCHANGED cnn
       \/ /\ Raise
          /\ cnn' = [cnn EXCEPT !.nsqd = accdb_throw(@)]
          /\ UNCHANGED <<res, log, fs0>>
    /\ UNCHANGED <<argv, keep_csv, raw, prev, bmpdb, nsqd, fs0, fs, ret>>

\* make_nsqd: the with-block ends, return res; main: nsqd = make_nsqd(nsqdfile)
NsqdExit ==
    /\ pc = "nsqd_exit"
    /\ cnn' = [cnn EXCEPT !.nsqd = accdb_exit(@)]
    /\ log' = Append(log, <<"close", "nsqd">>)
    /\ nsqd' = res
    /\ pc' = "bmpdata_csv"
    /\ UNCHANGED <<argv, keep_csv, raw, res, prev, bmpdb, fs0, fs, ret>>

\* dump_to_zip, line by line, for the call at program position at
DumpCsv(at, df, name, next) ==
    /\ pc = at
    /\ fs' = WriteCsv(fs, df, name)
    /\ log' = Append(log, <<"serialize", DatasetOf(name)>>)
    /\ pc' = next
    /\ UNCHANGED <<argv, keep_csv, cnn, raw, res, prev, bmpdb, nsqd, ret, fs0>>

DumpZip(at, name, next) ==
    /\ pc = at
    /\ fs' = WriteZip(fs, name)
    /\ pc' = next
    /\ UNCHANGED <<argv, keep_csv, cnn, raw, res, prev, bmpdb, nsqd, ret, log, fs0>>

DumpUnlink(at, name, next) ==
    /\ pc = at
    /\ fs' = UnlinkCsv(fs, name, keep_csv)
    /\ ret' = dump_to_zip_result(name)
    /\ pc' = next
    /\ UNCHANGED <<argv, keep_csv, cnn, raw, res, prev, bmpdb, nsqd, log, fs0>>

\* main: dump_to_zip(bmpdb, 'bmpdata', keep_csv=keep_csv)
DumpBmpCsv == DumpCsv("bmpdata_csv", bmpdb, <<"b", "m", "p", "d", "a", "t", "a">>, "bmpdata_zip")
DumpBmpZip == DumpZip("bmpdata_zip", <<"b", "m", "p", "d", "a", "t", "a">>, "bmpdata_unlink")
DumpBmpUnlink == DumpUnlink("bmpdata_unlink", <<"b", "m", "p", "d", "a", "t", "a">>, "nsqd_csv")

\* variant: dump_to_zip(bmpdb, 'nsqd', keep_csv=keep_csv)
DumpNsqdCsv_bmpdb == DumpCsv("nsqd_csv", bmpdb, <<"n", "s", "q", "d">>, "nsqd_zip")

\* main: dump_to_zip(nsqd, 'nsqd', keep_csv=keep_csv)
DumpNsqdCsv == DumpCsv("nsqd_csv", nsqd, <<"n", "s", "q", "d">>, "nsqd_zip")
DumpNsqdZip == DumpZip("nsqd_zip", <<"n", "s", "q", "d">>, "nsqd_unlink")
DumpNsqdUnlink == DumpUnlink("nsqd_unlink", <<"n", "s", "q", "d">>, "done")

Next ==
    \/ Main
    \/ BmpConnect \/ BmpQuery \/ BmpFilter \/ BmpExit
    \/ NsqdConnect \/ NsqdQuery \/ NsqdPipeline \/ NsqdExit
    \/ DumpBmpCsv \/ DumpBmpZip \/ DumpBmpUnlink
    \/ DumpNsqdCsv \/ DumpNsqdZip \/ DumpNsqdUnlink

Spec == Init /\ [][Next]_vars

-----------------------------------------------------------------------------
(* The transforms on their own: make_bmpdb's filter and each call of       *)
(* make_nsqd's chain, applied to query results drawn from wider sets       *)

BmpParameters ==
    {<<"P", "a", "r", "t", "i", "c", "l", "e", " ", "C", "o", "n", "c", "e", "n", "t", "r", "a", "t", "i", "o", "n">>, <<" ", "P", "a", "r", "t", "i", "c", "l", "e", " ", "C", "o", "n", "c", "e", "n", "t", "r", "a", "t", "i", "o", "n", " ">>, <<"p", "a", "r", "t", "i", "c", "l", "e", " ", "c", "o", "n", "c", "e", "n", "t", "r", "a", "t", "i", "o", "n">>,
     <<"C", "o", "p", "p", "e", "r">>, NaN}
BmpRows == {BmpRow(p, v) : p \in BmpParameters, v \in {<<"1", ".", "5">>, <<"2">>}}

\* rows that differ in parameter and fraction
FractionRows ==
    {NsqdRow(p, f, <<"R", "E">>, <<"A", "U">>, <<"F", "l", "o", "w">>) :
        p \in {<<"C", "o", "p", "p", "e", "r">>, <<"c", "o", "p", "p", "e", "r", " ">>, <<"Z", "i", "n", "c">>, NaN},
        f \in {<<"D", "i", "s", "s", "o", "l", "v", "e", "d">>, <<"d", "i", "s", "s", "o", "l", "v", "e", "d", " ">>, <<"T", "o", "t", "a", "l">>, NaN}}

\* rows that differ in the land use, the sampler or the EMC calculation
CodeRows ==
    {NsqdRow(<<"Z", "i", "n", "c">>, <<"T", "o", "t", "a", "l">>, lu, <<"A", "U">>, <<"F", "l", "o", "w">>) :
        lu \in {_LU_MAP[i][1] : i \in DOMAIN _LU_MAP} \cup {<<"X", "X">>, <<"r", "e">>, NaN}}
    \cup {NsqdRow(<<"Z", "i", "n", "c">>, <<"T", "o", "t", "a", "l">>, <<"C", "O">>, eq, <<"F", "l", "o", "w">>) : eq \in {<<"M", "A">>, <<"m", "a">>, NaN}}
    \cup {NsqdRow(<<"Z", "i", "n", "c">>, <<"T", "o", "t", "a", "l">>, <<"C", "O">>, <<"M", "A">>, emc) : emc \in {<<"G", "r", "a", "b">>, NaN}}

BmpResults == {Frame(BMPQUERY, rows) : rows \in SeqsUpTo(BmpRows, MaxRows)}
NsqdResults ==
    {Frame(NSQDQUERY, rows) :
        rows \in SeqsUpTo(FractionRows, MaxRows) \cup SeqsUpTo(CodeRows, MaxCodeRows)}

NoFiles == [p \in Paths |-> NoFile]

InitTables ==
    /\ argv = <<"generate_data.py">>
    /\ keep_csv = FALSE
    /\ cnn = [bmp |-> "none", nsqd |-> "none"]
    /\ \/ /\ pc = "t_bmp"
          /\ res \in BmpResults
          /\ raw = [bmp |-> res, nsqd |-> NoTable]
       \/ /\ pc = "t_nsqd"
          /\ res \in NsqdResults
          /\ raw = [bmp |-> NoTable, nsqd |-> res]
    /\ prev = NoTable
    /\ bmpdb = NoTable
    /\ nsqd = NoTable
    /\ fs0 = NoFiles
    /\ fs = fs0
    /\ ret = NoPath
    /\ log = <<>>

\* one call of the chain: prev keeps the table the call was applied to
TableStep(at, out, next) ==
    /\ pc = at
    /\ prev' = res
    /\ res' = out
    /\ pc' = next
    /\ UNCHANGED <<argv, keep_csv, cnn, raw, bmpdb, nsqd, fs0, fs, ret, log>>

TBmpFilter == TableStep("t_bmp", BmpTransform(res), "t_bmp_done")
TRenameLower == TableStep("t_nsqd", RenameLower(res), "t_lower")
TRenameColumns == TableStep("t_lower", RenameColumns(res), "t_renamed")
TSetupParameters == TableStep("t_renamed", setup_parameters(res), "t_parameters")
TConvertDates == TableStep("t_parameters", convert_dates(res), "t_dates")
TAssignSeason == TableStep("t_dates", AssignSeason(res), "t_season")
TAssignLanduse == TableStep("t_season", AssignLanduse(res), "t_landuse")
TAssignEquipment == TableStep("t_landuse", AssignEquipment(res), "t_equipment")
TAssignSampletype == TableStep("t_equipment", AssignSampletype(res), "t_sampletype")
TDropStationCode == TableStep("t_sampletype", DropStationCode(res), "t_nsqd_done")

NextTables ==
    \/ TBmpFilter
    \/ TRenameLower \/ TRenameColumns \/ TSetupParameters \/ TConvertDates
    \/ TAssignSeason \/ TAssignLanduse \/ TAssignEquipment
    \/ TAssignSampletype \/ TDropStationCode

SpecTables == InitTables /\ [][NextTables]_vars

-----------------------------------------------------------------------------
(* dump_to_zip on its own: the script run again and again over the same    *)
(* OUTDIR, each call with any table, either name and either keep_csv       *)

DumpRows == {<< <<"C", "o", "p", "p", "e", "r", ",", " ", "D", "i", "s", "s", "o", "l", "v", "e", "d">>, <<"1", ".", "5">> >>, << NaN, <<"2">> >>}
DumpTables ==
    {Frame(<< <<"p", "a", "r", "a", "m", "e", "t", "e", "r">>, <<"v", "a", "l", "u", "e">> >>, rows) : rows \in SeqsUpTo(DumpRows, MaxDumpRows)}

InitDump ==
    /\ argv = <<"generate_data.py">>
    /\ pc = "d_call"
    /\ keep_csv = FALSE
    /\ cnn = [bmp |-> "none", nsqd |-> "none"]
    /\ raw = [bmp |-> NoTable, nsqd |-> NoTable]
    /\ res = NoTable
    /\ prev = NoTable
    /\ bmpdb = NoTable
    /\ nsqd = NoTable
    /\ fs0 \in InitialFiles
    /\ fs = fs0
    /\ ret = NoPath
    /\ log = <<>>

\* one whole call dump_to_zip(df, name, keep_csv=keep): res, keep_csv and the
\* last entry of log keep its arguments, bmpdb and nsqd the last table dumped
\* under each name
DumpCall ==
    /\ pc = "d_call"
    /\ Len(log) < MaxDumps
    /\ \E df \in DumpTables, name \in DumpNames, keep \in BOOLEAN :
        /\ fs' = dump_to_zip(fs, df, name, keep)
        /\ ret' = dump_to_zip_result(name)
        /\ res' = df
        /\ keep_csv' = keep
        /\ log' = Append(log, <<"serialize", DatasetOf(name)>>)
        /\ bmpdb' = IF name = <<"b", "m", "p", "d", "a", "t", "a">> THEN df ELSE bmpdb
        /\ nsqd' = IF name = <<"n", "s", "q", "d">> THEN df ELSE nsqd
    /\ UNCHANGED <<argv, pc, cnn, raw, prev, fs0>>

NextDump == DumpCall

SpecDump == InitDump /\ [][NextDump]_vars

-----------------------------------------------------------------------------
(* Properties of the whole script (Spec) *)

\* the stages of dataset d logged so far, in order
Stages(d) ==
    LET isStage(e) == e[2] = d /\ e[1] \in {"connect", "query", "transform", "serialize"}
        sel == SelectSeq(log, isStage)
    IN  [i \in DOMAIN sel |-> sel[i][1]]

IsPrefix(s, t) == Len(s) <= Len(t) /\ s = SubSeq(t, 1, Len(s))

\* the one member an archive of name holds after a dump of df
MemberOf(df, name) == [arcname |-> name \o <<".", "c", "s", "v">>, text |-> ToCsv(df)]

\* C1: for each dataset the stages connect, query, transform, serialize
\* happen in that order and at most once during a run; when the run is
\* complete each has happened exactly once, the tables dumped are the
\* transformed query results, and no further step is possible.
C1_StagesOnceInOrder ==
    /\ \A d \in {"bmp", "nsqd"} :
          IsPrefix(Stages(d), <<"connect", "query", "transform", "serialize">>)
    /\ pc = "done" =>
          /\ \A d \in {"bmp", "nsqd"} :
                Stages(d) = <<"connect", "query", "transform", "serialize">>
          /\ fs[ZipPath(<<"b", "m", "p", "d", "a", "t", "a">>)].members
                = << MemberOf(BmpTransform(raw.bmp), <<"b", "m", "p", "d", "a", "t", "a">>) >>
          /\ fs[ZipPath(<<"n", "s", "q", "d">>)].members
                = << MemberOf(NsqdTransform(raw.nsqd), <<"n", "s", "q", "d">>) >>
          /\ ~ENABLED Next

\* a complete run over query results that both have a row
C1_Witness ==
    /\ pc = "done"
    /\ raw.bmp.rows # <<>>
    /\ raw.nsqd.rows # <<>>
    /\ Len(log) = 10

\* the first command-line argument is exactly -k or --keep
FirstArgKeeps ==
    /\ Tail(argv) # <<>>
    /\ Head(Tail(argv)) = "-k" \/ Head(Tail(argv)) = "--keep"

\* C3: after a complete run each loose CSV file exists if and only if the
\* first command-line argument is exactly -k or --keep, the same for both
\* datasets.
C3_KeepOnlyByFirstArg ==
    pc = "done" =>
        \A n \in DumpNames :
            /\ fs[CsvPath(n)].kind = "file" <=> FirstArgKeeps
            /\ fs[CsvPath(n)].kind = "none" <=> ~FirstArgKeeps

\* a complete run with -k in second position only: the CSV files that an
\* earlier run left are gone
C3_Witness ==
    /\ pc = "done"
    /\ argv = <<"generate_data.py", "-x", "-k">>
    /\ \A n \in DumpNames : fs0[CsvPath(n)] # NoFile /\ fs[CsvPath(n)] = NoFile

\* the program positions inside a with-block of accdb_connection
InWith(d) ==
    IF d = "bmp" THEN pc \in {"bmp_query", "bmp_filter", "bmp_exit"}
    ELSE pc \in {"nsqd_query", "nsqd_transform", "nsqd_exit"}

\* C8: a connection is open only inside its with-block, whether the block
\* was left normally or by an exception, and at most one connection is open
\* at any moment.
C8_ClosedOnEveryExit ==
    /\ \A d \in {"bmp", "nsqd"} : cnn[d] = "open" => InWith(d)
    /\ ~(cnn.bmp = "open" /\ cnn.nsqd = "open")

\* C9: the files of OUTDIR differ from those at the start only after both
\* extractions have finished (BMP first, then NSQD); a run that ended in an
\* exception of an extraction left OUTDIR as it was; and the nsqd files are
\* touched only after bmpdata.zip is complete.
C9_NoOutputBeforeBothExtractions ==
    /\ cnn.nsqd # "none" => cnn.bmp = "closed" /\ bmpdb = BmpTransform(raw.bmp)
    /\ fs # fs0 =>
          /\ cnn.bmp = "closed" /\ cnn.nsqd = "closed"
          /\ bmpdb = BmpTransform(raw.bmp)
          /\ nsqd = NsqdTransform(raw.nsqd)
          /\ Stages("nsqd")[Len(Stages("nsqd"))] \in {"transform", "serialize"}
    /\ pc = "raised" => fs = fs0 /\ \A i \in DOMAIN log : log[i][1] # "serialize"
    /\ (\E p \in {CsvPath(<<"n", "s", "q", "d">>), ZipPath(<<"n", "s", "q", "d">>)} : fs[p] # fs0[p]) =>
          /\ fs[ZipPath(<<"b", "m", "p", "d", "a", "t", "a">>)].members = << MemberOf(bmpdb, <<"b", "m", "p", "d", "a", "t", "a">>) >>
          /\ fs[CsvPath(<<"b", "m", "p", "d", "a", "t", "a">>)] =
                IF keep_csv THEN PlainFile(ToCsv(bmpdb)) ELSE NoFile

\* the NSQD extraction failed after the BMP extraction had succeeded
C9_Witness ==
    /\ pc = "raised"
    /\ cnn.bmp = "closed"
    /\ Stages("nsqd") = <<"connect", "query">>
    /\ bmpdb.rows # <<>>
    /\ \E p \in Paths \ {OtherPath} : fs0[p] # NoFile
    /\ fs = fs0

-----------------------------------------------------------------------------
(* Properties of the transforms (SpecTables) *)

\* the cell of row r in the column labelled c
Cell(df, c, r) == df.rows[r][CHOOSE i \in DOMAIN df.columns : df.columns[i] = c]

\* the columns of the table before are all in the table after, in place
KeepsColumns(before, after) ==
    /\ Len(after.rows) = Len(before.rows)
    /\ \A i \in DOMAIN before.columns :
          /\ after.columns[i] = before.columns[i]
          /\ \A r \in DOMAIN before.rows : after.rows[r][i] = before.rows[r][i]

\* parameter_family lower-cased and stripped
Family(df, r) == StrStrip(StrLower(Cell(df, <<"p", "a", "r", "a", "m", "e", "t", "e", "r", "_", "f", "a", "m", "i", "l", "y">>, r)))

\* the families that occur in a row whose fraction, lower-cased, is 'dissolved'
DissolvedFamilies(df) ==
    {Family(df, r) : r \in {q \in DOMAIN df.rows :
        /\ Cell(df, <<"p", "a", "r", "a", "m", "e", "t", "e", "r", "_", "f", "r", "a", "c", "t", "i", "o", "n">>, q) # NaN
        /\ Lower(Cell(df, <<"p", "a", "r", "a", "m", "e", "t", "e", "r", "_", "f", "r", "a", "c", "t", "i", "o", "n">>, q)) = <<"d", "i", "s", "s", "o", "l", "v", "e", "d">>
        /\ Cell(df, <<"p", "a", "r", "a", "m", "e", "t", "e", "r", "_", "f", "a", "m", "i", "l", "y">>, q) # NaN}}

\* C4: setup_parameters appends the column parameter and changes nothing
\* else; a row whose family (lower-cased, stripped) occurs with a dissolved
\* fraction in some row gets stripped family + ', ' + fraction (missing when
\* its fraction is missing), every other row gets its family unchanged.
C4_ParameterFromDissolvedFamilies ==
    pc = "t_parameters" =>
        /\ KeepsColumns(prev, res)
        /\ res.columns = Append(prev.columns, <<"p", "a", "r", "a", "m", "e", "t", "e", "r">>)
        /\ \A r \in DOMAIN prev.rows :
              Cell(res, <<"p", "a", "r", "a", "m", "e", "t", "e", "r">>, r) =
                  IF Family(prev, r) \in DissolvedFamilies(prev)
                  THEN StrAdd(StrStrip(Cell(prev, <<"p", "a", "r", "a", "m", "e", "t", "e", "r", "_", "f", "a", "m", "i", "l", "y">>, r)) \o <<",", " ">>,
                              Cell(prev, <<"p", "a", "r", "a", "m", "e", "t", "e", "r", "_", "f", "r", "a", "c", "t", "i", "o", "n">>, r))
                  ELSE Cell(prev, <<"p", "a", "r", "a", "m", "e", "t", "e", "r", "_", "f", "a", "m", "i", "l", "y">>, r)

\* a row that is not dissolved itself gets the suffix because another row,
\* whose family is written differently, is dissolved
C4_Witness ==
    /\ pc = "t_parameters"
    /\ \E r, q \in DOMAIN prev.rows :
          /\ Cell(prev, <<"p", "a", "r", "a", "m", "e", "t", "e", "r", "_", "f", "a", "m", "i", "l", "y">>, r) = <<"C", "o", "p", "p", "e", "r">>
          /\ Cell(prev, <<"p", "a", "r", "a", "m", "e", "t", "e", "r", "_", "f", "r", "a", "c", "t", "i", "o", "n">>, r) = <<"T", "o", "t", "a", "l">>
          /\ Cell(prev, <<"p", "a", "r", "a", "m", "e", "t", "e", "r", "_", "f", "a", "m", "i", "l", "y">>, q) = <<"c", "o", "p", "p", "e", "r", " ">>
          /\ Cell(prev, <<"p", "a", "r", "a", "m", "e", "t", "e", "r", "_", "f", "r", "a", "c", "t", "i", "o", "n">>, q) = <<"D", "i", "s", "s", "o", "l", "v", "e", "d">>
          /\ Cell(res, <<"p", "a", "r", "a", "m", "e", "t", "e", "r">>, r) = <<"C", "o", "p", "p", "e", "r", ",", " ", "T", "o", "t", "a", "l">>
          /\ Cell(res, <<"p", "a", "r", "a", "m", "e", "t", "e", "r">>, q) = <<"c", "o", "p", "p", "e", "r", ",", " ", "D", "i", "s", "s", "o", "l", "v", "e", "d">>

\* the rows of df that make_bmpdb has to keep
BmpKept(df) ==
    {r \in DOMAIN df.rows :
        \/ Cell(df, <<"p", "a", "r", "a", "m", "e", "t", "e", "r">>, r) = NaN
        \/ Strip(Cell(df, <<"p", "a", "r", "a", "m", "e", "t", "e", "r">>, r)) # <<"P", "a", "r", "t", "i", "c", "l", "e", " ", "C", "o", "n", "c", "e", "n", "t", "r", "a", "t", "i", "o", "n">>}

\* the k-th smallest element of a set of row numbers
Kth(S, k) == CHOOSE r \in S : Cardinality({q \in S : q <= r}) = k

\* C5: make_bmpdb returns exactly the rows whose stripped parameter is not
\* 'Particle Concentration', in the query's order and with every column
\* unchanged; a row with a missing parameter is kept.
C5_DropsParticleConcentration ==
    pc = "t_bmp_done" =>
        /\ res.columns = prev.columns
        /\ Len(res.rows) = Cardinality(BmpKept(prev))
        /\ \A k \in DOMAIN res.rows : res.rows[k] = prev.rows[Kth(BmpKept(prev), k)]

\* a missing parameter is kept and a padded 'Particle Concentration' removed
C5_Witness ==
    /\ pc = "t_bmp_done"
    /\ Len(prev.rows) = 2
    /\ Cell(prev, <<"p", "a", "r", "a", "m", "e", "t", "e", "r">>, 1) = <<" ", "P", "a", "r", "t", "i", "c", "l", "e", " ", "C", "o", "n", "c", "e", "n", "t", "r", "a", "t", "i", "o", "n", " ">>
    /\ Cell(prev, <<"p", "a", "r", "a", "m", "e", "t", "e", "r">>, 2) = NaN
    /\ res.rows = << prev.rows[2] >>

\* C6: in the table make_nsqd returns the column labels are pairwise
\* distinct, station_code is absent, the queried parameter and fraction are
\* the columns parameter_family and parameter_fraction next to the derived
\* parameter, and sampletype is 'composite' in every row.
C6_NsqdColumns ==
    pc = "t_nsqd_done" =>
        /\ \A i, j \in DOMAIN res.columns : res.columns[i] = res.columns[j] => i = j
        /\ <<"s", "t", "a", "t", "i", "o", "n", "_", "c", "o", "d", "e">> \notin Range(res.columns)
        /\ {<<"p", "a", "r", "a", "m", "e", "t", "e", "r", "_", "f", "a", "m", "i", "l", "y">>, <<"p", "a", "r", "a", "m", "e", "t", "e", "r", "_", "f", "r", "a", "c", "t", "i", "o", "n">>, <<"p", "a", "r", "a", "m", "e", "t", "e", "r">>} \subseteq Range(res.columns)
        /\ Len(res.rows) = Len(raw.nsqd.rows)
        /\ \A r \in DOMAIN res.rows :
              /\ Cell(res, <<"p", "a", "r", "a", "m", "e", "t", "e", "r", "_", "f", "a", "m", "i", "l", "y">>, r) = Cell(raw.nsqd, <<"p", "a", "r", "a", "m", "e", "t", "e", "r">>, r)
              /\ Cell(res, <<"p", "a", "r", "a", "m", "e", "t", "e", "r", "_", "f", "r", "a", "c", "t", "i", "o", "n">>, r) = Cell(raw.nsqd, <<"f", "r", "a", "c", "t", "i", "o", "n">>, r)
              /\ Cell(res, <<"s", "a", "m", "p", "l", "e", "t", "y", "p", "e">>, r) = <<"c", "o", "m", "p", "o", "s", "i", "t", "e">>

\* a row whose EMC_Calculation was 'Grab'
C6_Witness ==
    /\ pc = "t_nsqd_done"
    /\ raw.nsqd.rows # <<>>
    /\ Cell(raw.nsqd, <<"E", "M", "C", "_", "C", "a", "l", "c", "u", "l", "a", "t", "i", "o", "n">>, 1) = <<"G", "r", "a", "b">>
    /\ Cell(res, <<"s", "a", "m", "p", "l", "e", "t", "y", "p", "e">>, 1) = <<"c", "o", "m", "p", "o", "s", "i", "t", "e">>

\* the entry of code in a dict literal, missing when code is no key
Entry(d, code, value) ==
    \/ \E i \in DOMAIN d : d[i] = <<code, value>>
    \/ value = NaN /\ \A i \in DOMAIN d : d[i][1] # code

\* C7: for every row landuse_primary is the _LU_MAP entry of landuse_orig and
\* sample_equipment the _EQUIP_MAP entry of type_sampler, missing when the
\* code is no key; no row is dropped, landuse_orig and type_sampler are the
\* queried values, and X and X_MIX have the same entry in _LU_MAP.
C7_RemapsTotal ==
    /\ pc = "t_nsqd_done" =>
          /\ Len(res.rows) = Len(raw.nsqd.rows)
          /\ \A r \in DOMAIN res.rows :
                /\ Cell(res, <<"l", "a", "n", "d", "u", "s", "e", "_", "o", "r", "i", "g">>, r) = Cell(raw.nsqd, <<"P", "r", "i", "n", "c", "i", "p", "a", "l", " ", "L", "a", "n", "d", "u", "s", "e", "s">>, r)
                /\ Cell(res, <<"t", "y", "p", "e", "_", "s", "a", "m", "p", "l", "e", "r">>, r) = Cell(raw.nsqd, <<"T", "y", "p", "e", "_", "S", "a", "m", "p", "l", "e", "r">>, r)
                /\ Entry(_LU_MAP, Cell(res, <<"l", "a", "n", "d", "u", "s", "e", "_", "o", "r", "i", "g">>, r),
                         Cell(res, <<"l", "a", "n", "d", "u", "s", "e", "_", "p", "r", "i", "m", "a", "r", "y">>, r))
                /\ Entry(_EQUIP_MAP, Cell(res, <<"t", "y", "p", "e", "_", "s", "a", "m", "p", "l", "e", "r">>, r),
                         Cell(res, <<"s", "a", "m", "p", "l", "e", "_", "e", "q", "u", "i", "p", "m", "e", "n", "t">>, r))
    /\ \A i, j \in DOMAIN _LU_MAP :
          _LU_MAP[j][1] = _LU_MAP[i][1] \o <<"_", "M", "I", "X">> => _LU_MAP[j][2] = _LU_MAP[i][2]
    /\ \A i \in DOMAIN _LU_MAP :
          \E j \in DOMAIN _LU_MAP :
              \/ _LU_MAP[j][1] = _LU_MAP[i][1] \o <<"_", "M", "I", "X">>
              \/ _LU_MAP[i][1] = _LU_MAP[j][1] \o <<"_", "M", "I", "X">>

\* a land use that is no key of _LU_MAP
C7_Witness ==
    /\ pc = "t_nsqd_done"
    /\ raw.nsqd.rows # <<>>
    /\ Cell(raw.nsqd, <<"P", "r", "i", "n", "c", "i", "p", "a", "l", " ", "L", "a", "n", "d", "u", "s", "e", "s">>, 1) = <<"X", "X">>
    /\ Cell(res, <<"l", "a", "n", "d", "u", "s", "e", "_", "o", "r", "i", "g">>, 1) = <<"X", "X">>
    /\ Cell(res, <<"l", "a", "n", "d", "u", "s", "e", "_", "p", "r", "i", "m", "a", "r", "y">>, 1) = NaN

-----------------------------------------------------------------------------
(* Properties of dump_to_zip (SpecDump) *)

\* the name of the last call
LastName == NameOf(log[Len(log)][2])

\* C2: after dump_to_zip(df, name, keep_csv) the archive OUTDIR/name.zip holds
\* exactly one member, name.csv without a directory part, with the CSV text
\* of df; OUTDIR/name.csv exists if and only if keep_csv; the result is the
\* path of the archive.
C2_ArchiveHoldsOneCsv ==
    log # <<>> =>
        LET zip == fs[ZipPath(LastName)]
            csv == fs[CsvPath(LastName)]
        IN  /\ zip.kind = "zip"
            /\ Len(zip.members) = 1
            /\ zip.members[1].arcname = LastName \o <<".", "c", "s", "v">>
            /\ "/" \notin Range(zip.members[1].arcname)
            /\ zip.members[1].text = ToCsv(res)
            /\ keep_csv => csv = PlainFile(ToCsv(res))
            /\ ~keep_csv => csv = NoFile
            /\ ret = [parent |-> OUTDIR, name |-> LastName \o <<".", "z", "i", "p">>]

\* a call without keep_csv on a table with a row
C2_Witness ==
    /\ Len(log) = 1
    /\ res.rows # <<>>
    /\ ~keep_csv
    /\ fs0[CsvPath(LastName)] # NoFile
    /\ fs[CsvPath(LastName)] = NoFile

\* the last table dumped for dataset d
LastTable(d) == IF d = "nsqd" THEN nsqd ELSE bmpdb

Dumped(d) == \E i \in DOMAIN log : log[i][2] = d

\* C10: the archive of a name holds only the CSV of the last table dumped
\* under it; the files of a name not dumped and the unrelated file are as at
\* the start; and a call with the arguments of the call before it leaves
\* every file as it is.
C10_ReplacesNotAccumulates ==
    /\ [](/\ \A d \in {"bmp", "nsqd"} :
               IF Dumped(d)
               THEN fs[ZipPath(NameOf(d))] = Archive(<< MemberOf(LastTable(d), NameOf(d)) >>)
               ELSE /\ fs[ZipPath(NameOf(d))] = fs0[ZipPath(NameOf(d))]
                    /\ fs[CsvPath(NameOf(d))] = fs0[CsvPath(NameOf(d))]
          /\ fs[OtherPath] = fs0[OtherPath])
    /\ [][(/\ log # <<>>
           /\ log' = Append(log, log[Len(log)])
           /\ res' = res
           /\ keep_csv' = keep_csv) => fs' = fs]_vars

\* the same name dumped twice over an archive an earlier run left
C10_Witness ==
    /\ Len(log) >= 2
    /\ log[Len(log)] = log[Len(log) - 1]
    /\ fs0[ZipPath(LastName)] # NoFile
    /\ fs[ZipPath(LastName)] # fs0[ZipPath(LastName)]
    /\ Len(fs[ZipPath(LastName)].members) = 1

====
